---- MODULE Spec2Model ----
(***************************************************************************)
(* The emotion-analysis demos of the repository: the unified text/speech   *)
(* app (Speech-Text-Analysis/speech-text.py), the two speech apps          *)
(* (Speech_Sentiment.py and Speech-Text-Analysis/Text_Sentiment.py) and    *)
(* the text app (Text Analysis/Text_Sentiment.py).                         *)
(*                                                                         *)
(* A text is a sequence of characters, each character a one-element        *)
(* string.  Two characters outside ASCII are named by their code point:    *)
(* "U0130" (capital I with dot above) and "U0307" (combining dot above).   *)
(***************************************************************************)
EXTENDS Integers, Sequences, FiniteSets, TLC

VARIABLES
    app,                \* which script this process runs
    pc,                 \* position of the current script run
    reqNo,              \* number of script runs started so far
    mode,               \* "text" or "audio": the branch of the current run
    text,               \* the raw text input
    cleaned_text,       \* clean_text(text), or NoText
    recleaned,          \* clean_text applied to cleaned_text, or NoText
    audio_bytes,        \* the raw audio input
    raw_audio,          \* the decoded waveform, or NoWaveform
    audio_features,     \* the acoustic features, or NoFeatures
    transcript,         \* result["text"], or NoText
    nltkInitialized,    \* st.cache_resource entry of initialize_nltk
    stopwordsInstalled, \* the corpora/stopwords resource is on disk
    modelsCache,        \* st.cache_resource entry of the model loader: 0 or a handle
    whisperLoads,       \* number of whisper.load_model calls so far
    emotionLoads,       \* number of pipeline(...) constructions so far
    cleanCache,         \* st.cache_data entries of clean_text
    audioCache,         \* st.cache_data entries of process_audio
    models,             \* the handle the current run got from the loader, or 0
    fedTokens,          \* length of the token sequence the model was run on, or -1
    predictions,        \* the classifier's result for the current run
    cards,              \* the (label, diagnosis, color) cards rendered
    rendered,           \* the result sections rendered in the current run
    error,              \* the exception that ended the current run, or "none"
    trace               \* the stages the current run has executed, in order

vars == <<app, pc, reqNo, mode, text, cleaned_text, recleaned, audio_bytes,
          raw_audio, audio_features, transcript, nltkInitialized,
          stopwordsInstalled, modelsCache, whisperLoads, emotionLoads,
          cleanCache, audioCache, models, fedTokens, predictions, cards,
          rendered, error, trace>>

\* "no value yet" for a string, a text, a waveform and a feature record
NoValue == "NoValue"
NoText == <<"NoValue">>
NoWaveform == [samples |-> "NoValue", rate |-> 0]
NoFeatures == [pitch |-> <<>>, mfcc |-> <<>>, energy |-> -1]

(***************************************************************************)
(* Bounds of the model.                                                    *)
(***************************************************************************)
MaxLen == 3          \* longest text drawn for the checks of clean_text
MaxRequests == 3     \* script runs per process

(***************************************************************************)
(* Characters.                                                             *)
(***************************************************************************)
UpperLetters == <<"A","B","C","D","E","F","G","H","I","J","K","L","M",
                  "N","O","P","Q","R","S","T","U","V","W","X","Y","Z">>
LowerLetters == <<"a","b","c","d","e","f","g","h","i","j","k","l","m",
                  "n","o","p","q","r","s","t","u","v","w","x","y","z">>
Digits == {"0","1","2","3","4","5","6","7","8","9"}

Range(s) == {s[i] : i \in DOMAIN s}

IsLetter(c) == c \in Range(UpperLetters) \cup Range(LowerLetters) \cup {"U0130"}

IsDigit(c) == c \in Digits

\* \s of the re module and the separators of str.split()
IsSpace(c) == c \in {" ", "\t", "\n"}

\* \w of the re module on str patterns: alphanumerics and the underscore
IsWordChar(c) == IsLetter(c) \/ IsDigit(c) \/ c = "_"

\* str.lower() on one character; U+0130 lowercases to the two characters
\* "i" and U+0307
LowerChar(c) ==
    IF c = "U0130" THEN <<"i", "U0307">>
    ELSE IF \E k \in DOMAIN UpperLetters : UpperLetters[k] = c
         THEN <<LowerLetters[CHOOSE k \in DOMAIN UpperLetters : UpperLetters[k] = c]>>
         ELSE <<c>>

RECURSIVE Lower(_)
Lower(t) == IF t = <<>> THEN <<>> ELSE LowerChar(Head(t)) \o Lower(Tail(t))

\* re.sub(r'[^\w\s]', '', text)
StripNonWord(t) == SelectSeq(t, LAMBDA c : IsWordChar(c) \/ IsSpace(c))

\* str.split(): the maximal runs of non-whitespace characters, in order
RECURSIVE SplitFrom(_, _, _)
SplitFrom(t, cur, acc) ==
    IF t = <<>>
    THEN IF cur = <<>> THEN acc ELSE Append(acc, cur)
    ELSE IF IsSpace(Head(t))
         THEN SplitFrom(Tail(t), <<>>, IF cur = <<>> THEN acc ELSE Append(acc, cur))
         ELSE SplitFrom(Tail(t), Append(cur, Head(t)), acc)

Split(t) == SplitFrom(t, <<>>, <<>>)

\* a join that leaves the separator out: ''.join(words)
RECURSIVE JoinNoSeparator(_)
JoinNoSeparator(words) ==
    IF words = <<>> THEN <<>> ELSE words[1] \o JoinNoSeparator(Tail(words))

\* ' '.join(words)
RECURSIVE Join(_)
Join(words) ==
    IF words = <<>> THEN <<>>
    ELSE IF Len(words) = 1 THEN words[1]
    ELSE words[1] \o <<" ">> \o Join(Tail(words))

\* stopwords.words('english'), the entries spelled with the letters the
\* model's texts use
Stopwords ==
    { <<"i">>, <<"a">>, <<"s">>, <<"t">>, <<"d">>, <<"m">>, <<"o">>, <<"y">>,
      <<"m","e">>, <<"m","y">>, <<"a","n">>, <<"a","s">>, <<"a","t">>,
      <<"b","e">>, <<"b","y">>, <<"d","o">>, <<"h","e">>, <<"i","f">>,
      <<"n","o">>, <<"o","f">>, <<"o","n">>, <<"s","o">>, <<"t","o">>,
      <<"a","n","d">>, <<"t","h","e">>, <<"a","l","l">>, <<"a","n","y">>,
      <<"h","a","d">>, <<"h","a","s">>, <<"n","o","t">>, <<"t","o","o">> }

KeepNonStopwords(words) == SelectSeq(words, LAMBDA w : w \notin Stopwords)

\* str.strip(): drop the leading and the trailing whitespace
RECURSIVE LStrip(_)
LStrip(t) == IF t # <<>> /\ IsSpace(Head(t)) THEN LStrip(Tail(t)) ELSE t

RECURSIVE RStrip(_)
RStrip(t) ==
    IF t # <<>> /\ IsSpace(t[Len(t)]) THEN RStrip(SubSeq(t, 1, Len(t) - 1)) ELSE t

Strip(t) == RStrip(LStrip(t))

\* text.lower().strip().split() of the stripped text: the words clean_text
\* filters
Words(t) == Split(Strip(Lower(StripNonWord(t))))

\* clean_text: strip what is neither \w nor \s, lowercase and strip, split,
\* drop the stopwords, join with single spaces
clean_text(t) == Join(KeepNonStopwords(Words(t)))

(***************************************************************************)
(* The scripts, their inputs and the external collaborators.               *)
(***************************************************************************)
Apps == {"speech_text", "Speech_Sentiment", "Speech_Text_Sentiment", "Text_Sentiment"}

\* the branches a script has: the unified app has both, the others one
Modes(a) ==
    IF a = "speech_text" THEN {"text", "audio"}
    ELSE IF a = "Text_Sentiment" THEN {"text"}
    ELSE {"audio"}

\* the scripts that call initialize_nltk
UsesNltk(a) == a \in {"speech_text", "Text_Sentiment"}

\* the scripts whose loader loads the speech recognizer
LoadsWhisper(a) == a # "Text_Sentiment"

Scenario == <<"I"," ","f","e","e","l"," ","h","o","p","e","l","e","s","s"," ",
              "a","n","d"," ","e","m","p","t","y">>

\* the text inputs of the script runs: empty, the scenario, a lone stopword,
\* punctuation only, punctuation and a capital
PipelineTexts == { <<>>, Scenario, <<"a">>, <<".">>, <<".", "B">> }

NoAudio == "None"

\* the audio inputs: nothing recorded or uploaded, silence, speech, bytes
\* that are no audio file
AudioInputs == { NoAudio, "silence", "speech", "malformed" }

sr == 16000

\* librosa.load raises on bytes that are no audio file
DecodeFails(bytes) == bytes = "malformed"

\* librosa.load(f, sr=16000): the waveform
Decode(bytes) == [samples |-> bytes, rate |-> sr]

\* the pitch, mfcc and energy entries computed from the waveform
Features(audio) ==
    [pitch  |-> <<"yin.mean", audio.samples>>,
     mfcc   |-> <<"mfcc.mean[:5]", audio.samples>>,
     energy |-> IF audio.samples = "silence" THEN 0 ELSE 1]

\* models['whisper'].transcribe(audio)["text"]
WhisperText(audio) == IF audio.samples = "silence" THEN <<>> ELSE Scenario

max_length == 512

\* bound on the token counts the tokenizer of the classifier may produce
MaxTokens == 513

\* the lengths the external tokenizer may give the classifier's input
TokenCounts == {2, max_length, MaxTokens}

Min(a, b) == IF a <= b THEN a ELSE b

\* the labels of j-hartmann/emotion-english-distilroberta-base
ModelLabels == <<"anger", "disgust", "fear", "joy", "neutral", "sadness", "surprise">>

\* what a classifier call may return: the labels in order and the one with
\* the highest score; a label set this code does not know is possible too
ClassifierOutputs ==
    { [labels |-> ModelLabels, top |-> l] : l \in Range(ModelLabels) }
        \cup { [labels |-> <<"LABEL_0", "LABEL_1">>, top |-> "LABEL_0"] }

\* the call passes truncation=True, max_length=512
Truncates(a, m) == m = "text"

\* the pipeline was built with return_all_scores=True
ReturnsAllScores(a) == a # "Speech_Text_Sentiment"

\* model(text, ...)[0] resp. model(text)[0]: the list of all scores, or in
\* Speech-Text-Analysis/Text_Sentiment.py the single highest one
Predictions(a, out) ==
    IF ReturnsAllScores(a)
    THEN [i \in DOMAIN out.labels |->
            [label |-> out.labels[i], top |-> out.labels[i] = out.top]]
    ELSE <<[label |-> out.top, top |-> TRUE]>>

health_map_text ==
    [sadness |-> [diagnosis |-> "Potential Depression", color |-> "#e74c3c"],
     fear    |-> [diagnosis |-> "Anxiety Indicators",   color |-> "#3498db"],
     anger   |-> [diagnosis |-> "Stress Markers",       color |-> "#f1c40f"],
     neutral |-> [diagnosis |-> "Baseline State",       color |-> "#2ecc71"]]

health_map_speech ==
    [sadness |-> [diagnosis |-> "Depression Risk", color |-> "#e74c3c"],
     fear    |-> [diagnosis |-> "Anxiety Signs",   color |-> "#3498db"],
     anger   |-> [diagnosis |-> "Stress Level",    color |-> "#f1c40f"],
     neutral |-> [diagnosis |-> "Baseline State",  color |-> "#2ecc71"]]

\* the speech table used on both branches
health_map_speech_only(a, m) == health_map_speech

health_map(a, m) == IF m = "text" THEN health_map_text ELSE health_map_speech

\* the default of health_map.get
health_default(a) ==
    IF a = "Speech_Sentiment"
    THEN [diagnosis |-> "Neutral", color |-> "#95a5a6"]
    ELSE [diagnosis |-> "Other",   color |-> "#95a5a6"]

\* a lookup that falls back to the "neutral" entry
health_map_get_neutral(a, m, label) ==
    IF label \in DOMAIN health_map(a, m) THEN health_map(a, m)[label]
    ELSE health_map(a, m)["neutral"]

\* health_map.get(label, default)
health_map_get(a, m, label) ==
    IF label \in DOMAIN health_map(a, m) THEN health_map(a, m)[label]
    ELSE health_default(a)

\* the card the loop renders for one prediction
Card(a, m, pred) ==
    IF a = "Speech_Text_Sentiment"
    THEN [label |-> pred.label, top |-> pred.top,
          diagnosis |-> NoValue, color |-> NoValue]
    ELSE [label |-> pred.label, top |-> pred.top,
          diagnosis |-> health_map_get(a, m, pred.label).diagnosis,
          color |-> health_map_get(a, m, pred.label).color]

\* clean_text's cache holds a value for the text
CleanCached(t) == \E e \in cleanCache : e[1] = t

\* a cache lookup that ignores the key: the value of some entry
CachedCleanAnyKey(t) == (CHOOSE e \in cleanCache : TRUE)[2]

\* the value clean_text's cache holds for a text
CachedClean(t) == (CHOOSE e \in cleanCache : e[1] = t)[2]

\* process_audio's cache holds an entry for the bytes
AudioCached(b) == \E e \in audioCache : e.key = b

\* the entry process_audio's cache holds for the bytes
CachedAudio(b) == CHOOSE e \in audioCache : e.key = b

(***************************************************************************)
(* The state of a process before its first script run.                     *)
(***************************************************************************)
FreshRun ==
    /\ cleaned_text = NoText /\ recleaned = NoText
    /\ raw_audio = NoWaveform /\ audio_features = NoFeatures /\ transcript = NoText
    /\ models = 0 /\ fedTokens = -1 /\ predictions = <<>> /\ cards = <<>>
    /\ rendered = {} /\ error = "none" /\ trace = <<>>

Init ==
    /\ app \in Apps
    /\ pc = "idle"
    /\ reqNo = 0
    /\ mode = "text" /\ text = <<>> /\ audio_bytes = NoAudio
    /\ nltkInitialized = FALSE
    /\ stopwordsInstalled \in BOOLEAN
    /\ modelsCache = 0 /\ whisperLoads = 0 /\ emotionLoads = 0
    /\ cleanCache = {} /\ audioCache = {}
    /\ FreshRun

process == <<app, reqNo, nltkInitialized, stopwordsInstalled, modelsCache,
             whisperLoads, emotionLoads, cleanCache, audioCache>>

run == <<mode, text, cleaned_text, recleaned, audio_bytes, raw_audio,
         audio_features, transcript, models, fedTokens, predictions, cards,
         rendered, error, trace>>

\* an exception that is caught, after which the run goes on to the display
RaiseCaught(e) == pc' = "render" /\ error' = e

\* an uncaught exception ends the script run
Raise(e) == pc' = "failed" /\ error' = e

(***************************************************************************)
(* A script run starts: streamlit reruns the script with the widgets'      *)
(* values.                                                                 *)
(***************************************************************************)
Rerun(m, t, b) ==
    /\ pc \in {"idle", "done", "failed"}
    /\ reqNo < MaxRequests
    /\ m \in Modes(app)
    /\ reqNo' = reqNo + 1
    /\ mode' = m
    /\ text' = IF m = "text" THEN t ELSE <<>>
    /\ audio_bytes' = IF m = "audio" THEN b ELSE NoAudio
    /\ cleaned_text' = NoText /\ recleaned' = NoText
    /\ raw_audio' = NoWaveform /\ audio_features' = NoFeatures /\ transcript' = NoText
    /\ models' = 0 /\ fedTokens' = -1 /\ predictions' = <<>> /\ cards' = <<>>
    /\ rendered' = {} /\ error' = "none" /\ trace' = <<>>
    /\ pc' = IF UsesNltk(app) THEN "initialize_nltk" ELSE "input"
    /\ UNCHANGED <<app, nltkInitialized, stopwordsInstalled, modelsCache,
                   whisperLoads, emotionLoads, cleanCache, audioCache>>

\* initialize_nltk under st.cache_resource: the first call looks the
\* stopwords up, catches the LookupError and downloads; nltk.download
\* reports a failure by its return value, which is dropped
initialize_nltk ==
    /\ pc = "initialize_nltk"
    /\ IF nltkInitialized
       THEN UNCHANGED <<stopwordsInstalled, trace>>
       ELSE IF stopwordsInstalled
            THEN /\ trace' = Append(trace, "nltk.data.find")
                 /\ UNCHANGED stopwordsInstalled
            ELSE /\ trace' = trace \o <<"nltk.data.find", "except LookupError",
                                        "nltk.download">>
                 /\ stopwordsInstalled' \in BOOLEAN
    /\ nltkInitialized' = TRUE
    /\ pc' = "input"
    /\ UNCHANGED <<app, reqNo, modelsCache, whisperLoads, emotionLoads,
                   cleanCache, audioCache, mode, text, cleaned_text, recleaned,
                   audio_bytes, raw_audio, audio_features, transcript, models,
                   fedTokens, predictions, cards, rendered, error>>

\* a script without the `if text:` / `if audio_bytes:` test
InputUnguarded ==
    /\ pc = "input"
    /\ pc' = IF mode = "text" THEN "clean_text" ELSE "process_audio"
    /\ UNCHANGED <<process, run>>

\* `if text:` resp. `if audio_bytes:`
Input ==
    /\ pc = "input"
    /\ pc' = IF mode = "text"
             THEN (IF text = <<>> THEN "done" ELSE "clean_text")
             ELSE (IF audio_bytes = NoAudio THEN "done" ELSE "process_audio")
    /\ UNCHANGED <<process, run>>

\* cleaned_text = clean_text(text) under st.cache_data; stopwords.words is
\* evaluated once per word and raises LookupError when the resource is missing
CleanText ==
    /\ pc = "clean_text"
    /\ IF CleanCached(text)
       THEN /\ cleaned_text' = CachedClean(text)
            /\ pc' = "load_models"
            /\ UNCHANGED <<cleanCache, error, trace>>
       ELSE IF Words(text) # <<>> /\ ~stopwordsInstalled
            THEN /\ Raise("LookupError")
                 /\ trace' = Append(trace, "normalize")
                 /\ UNCHANGED <<cleanCache, cleaned_text>>
            ELSE /\ cleaned_text' = clean_text(text)
                 /\ cleanCache' = cleanCache \cup {<<text, clean_text(text)>>}
                 /\ trace' = Append(trace, "normalize")
                 /\ pc' = "load_models"
                 /\ UNCHANGED error
    /\ UNCHANGED <<app, reqNo, nltkInitialized, stopwordsInstalled, modelsCache,
                   whisperLoads, emotionLoads, audioCache, mode, text, recleaned,
                   audio_bytes, raw_audio, audio_features, transcript, models,
                   fedTokens, predictions, cards, rendered>>

\* what the loader's collaborators may do: whisper.load_model runs first,
\* then pipeline(...); either may raise
LoadOutcomes(a) ==
    IF LoadsWhisper(a) THEN {"ok", "whisper_fails", "pipeline_fails"}
    ELSE {"ok", "pipeline_fails"}

\* a loader without a cache: every call loads
LoaderNeverCached == FALSE

\* st.cache_resource holds a value for the loader
LoaderCached == modelsCache # 0

\* a cache that keeps an entry for a call that raised
CacheAfterLoadAlways(outcome, handle) == handle

\* what st.cache_resource keeps after a call of the loader: the returned
\* handle, nothing when the loader raised
CacheAfterLoad(outcome, handle) == IF outcome = "ok" THEN handle ELSE 0

\* the statement that follows a load_models call that returned
AfterLoad ==
    IF pc = "load_models_main" THEN "classify"
    ELSE IF mode = "text" THEN "classify" ELSE "transcribe"

\* load_models() resp. load_emotion_model() under st.cache_resource
LoadModels ==
    /\ pc \in {"load_models", "load_models_main"}
    /\ IF LoaderCached
       THEN /\ models' = modelsCache
            /\ pc' = AfterLoad
            /\ UNCHANGED <<modelsCache, whisperLoads, emotionLoads, error>>
       ELSE \E outcome \in LoadOutcomes(app) :
            /\ whisperLoads' = IF LoadsWhisper(app) /\ outcome # "whisper_fails"
                               THEN whisperLoads + 1 ELSE whisperLoads
            /\ emotionLoads' = IF outcome = "ok"
                               THEN emotionLoads + 1 ELSE emotionLoads
            /\ modelsCache' = CacheAfterLoad(outcome, reqNo)
            /\ IF outcome = "ok"
               THEN /\ models' = reqNo
                    /\ pc' = AfterLoad
                    /\ UNCHANGED error
               ELSE /\ Raise("ModelUnavailableError")
                    /\ UNCHANGED models
    /\ UNCHANGED <<app, reqNo, nltkInitialized, stopwordsInstalled, cleanCache,
                   audioCache, mode, text, cleaned_text, recleaned, audio_bytes,
                   raw_audio, audio_features, transcript, fedTokens,
                   predictions, cards, rendered, trace>>

\* process_audio(audio_bytes) under st.cache_data: decode, then the three
\* features; Speech-Text-Analysis/Text_Sentiment.py goes on inside it to
\* load_models and transcribe, the two others return here
ProcessAudio ==
    /\ pc = "process_audio"
    /\ IF AudioCached(audio_bytes)
       THEN /\ audio_features' = CachedAudio(audio_bytes).features
            /\ raw_audio' = CachedAudio(audio_bytes).audio
            /\ transcript' = CachedAudio(audio_bytes).text
            /\ pc' = IF app = "Speech_Text_Sentiment"
                     THEN "load_models_main" ELSE "load_models"
            /\ UNCHANGED <<audioCache, error, trace>>
       ELSE IF DecodeFails(audio_bytes)
            THEN /\ Raise("DecodeError")
                 /\ trace' = Append(trace, "decode")
                 /\ UNCHANGED <<audioCache, audio_features, raw_audio, transcript>>
            ELSE /\ audio_features' = Features(Decode(audio_bytes))
                 /\ raw_audio' = IF app = "Speech_Sentiment" THEN NoWaveform
                                 ELSE Decode(audio_bytes)
                 /\ audioCache' =
                        IF app = "Speech_Text_Sentiment" THEN audioCache
                        ELSE audioCache \cup
                             {[key |-> audio_bytes,
                               features |-> Features(Decode(audio_bytes)),
                               audio |-> IF app = "speech_text"
                                         THEN Decode(audio_bytes) ELSE NoWaveform,
                               text |-> NoText]}
                 /\ trace' = trace \o <<"decode", "extractFeatures">>
                 /\ pc' = "load_models"
                 /\ UNCHANGED <<error, transcript>>
    /\ UNCHANGED <<app, reqNo, nltkInitialized, stopwordsInstalled, modelsCache,
                   whisperLoads, emotionLoads, cleanCache, mode, text,
                   cleaned_text, recleaned, audio_bytes, models, fedTokens,
                   predictions, cards, rendered>>

\* the waveform handed to whisper: Speech_Sentiment.py decodes the bytes
\* once more for it, the others pass the one process_audio decoded
TranscribeDecodes(a) == a = "Speech_Sentiment"

\* models['whisper'].transcribe(...); the collaborator may raise
Transcribe ==
    /\ pc = "transcribe"
    /\ LET audio == IF TranscribeDecodes(app) THEN Decode(audio_bytes) ELSE raw_audio
           stages == IF TranscribeDecodes(app) THEN <<"decode", "transcribe">>
                     ELSE <<"transcribe">>
       IN  /\ trace' = trace \o stages
           /\ \E raises \in BOOLEAN :
                IF raises
                THEN /\ Raise("TranscriptionError")
                     /\ UNCHANGED <<transcript, raw_audio, audioCache>>
                ELSE /\ transcript' = WhisperText(audio)
                     /\ raw_audio' = audio
                     /\ audioCache' =
                            IF app = "Speech_Text_Sentiment"
                            THEN audioCache \cup
                                 {[key |-> audio_bytes, features |-> audio_features,
                                   audio |-> NoWaveform, text |-> WhisperText(audio)]}
                            ELSE audioCache
                     /\ pc' = IF app = "Speech_Text_Sentiment"
                              THEN "load_models_main" ELSE "classify"
                     /\ UNCHANGED error
    /\ UNCHANGED <<app, reqNo, nltkInitialized, stopwordsInstalled, modelsCache,
                   whisperLoads, emotionLoads, cleanCache, mode, text,
                   cleaned_text, recleaned, audio_bytes, audio_features, models,
                   fedTokens, predictions, cards, rendered>>

\* the number of tokens the model is run on, of the n the tokenizer made
FedTokens(a, m, n) == IF Truncates(a, m) THEN Min(n, max_length) ELSE n

\* model(cleaned_text, truncation=True, max_length=512) on the text path,
\* models['emotion_model'](result["text"]) on the audio path; the model
\* cannot run on more than max_length tokens
Classify ==
    /\ pc = "classify"
    /\ \E n \in TokenCounts, out \in ClassifierOutputs, raises \in BOOLEAN :
        /\ fedTokens' = FedTokens(app, mode, n)
        /\ IF FedTokens(app, mode, n) > max_length
           THEN /\ Raise("LengthError")
                /\ UNCHANGED predictions
           ELSE IF raises
                THEN /\ Raise("ClassificationError")
                     /\ UNCHANGED predictions
                ELSE /\ predictions' = Predictions(app, out)
                     /\ pc' = "render"
                     /\ UNCHANGED error
    /\ trace' = Append(trace, "classify")
    /\ UNCHANGED <<process, mode, text, cleaned_text, recleaned, audio_bytes,
                   raw_audio, audio_features, transcript, models, cards, rendered>>

\* the sections of results a branch renders
Sections(a, m) ==
    IF m = "text" THEN {"cards", "cleaned_text"}
    ELSE {"features", "transcript", "cards"}

\* the stages of the results display: the loop maps each prediction and
\* renders its card; Speech-Text-Analysis/Text_Sentiment.py maps nothing
RenderStages(a) ==
    IF a = "Speech_Text_Sentiment" THEN <<"render">> ELSE <<"map", "render">>

\* the results display
Render ==
    /\ pc = "render"
    /\ cards' = [i \in DOMAIN predictions |-> Card(app, mode, predictions[i])]
    /\ rendered' = Sections(app, mode)
    /\ trace' = trace \o RenderStages(app)
    /\ pc' = "done"
    /\ UNCHANGED <<process, mode, text, cleaned_text, recleaned, audio_bytes,
                   raw_audio, audio_features, transcript, models, fedTokens,
                   predictions, error>>

Next ==
    \/ \E m \in {"text", "audio"}, t \in PipelineTexts, b \in AudioInputs :
          Rerun(m, t, b)
    \/ initialize_nltk
    \/ Input
    \/ CleanText
    \/ LoadModels
    \/ ProcessAudio
    \/ Transcribe
    \/ Classify
    \/ Render

Spec == Init /\ [][Next]_vars

(***************************************************************************)
(* clean_text on its own: every text over Alphabet of at most MaxLen       *)
(* characters is cleaned, and the result is cleaned once more.             *)
(***************************************************************************)
Alphabet == {"a", "B", "_", ".", " ", "U0130"}

CleanTexts == UNION { [1..k -> Alphabet] : k \in 0..MaxLen }

InitClean ==
    /\ app = "Text_Sentiment"
    /\ pc = "normalize"
    /\ reqNo = 1
    /\ mode = "text" /\ text \in CleanTexts /\ audio_bytes = NoAudio
    /\ nltkInitialized = TRUE
    /\ stopwordsInstalled = TRUE
    /\ modelsCache = 0 /\ whisperLoads = 0 /\ emotionLoads = 0
    /\ cleanCache = {} /\ audioCache = {}
    /\ FreshRun

\* clean_text(text)
Normalize ==
    /\ pc = "normalize"
    /\ cleaned_text' = clean_text(text)
    /\ pc' = "normalize_again"
    /\ UNCHANGED <<process, mode, text, recleaned, audio_bytes, raw_audio,
                   audio_features, transcript, models, fedTokens, predictions,
                   cards, rendered, error, trace>>

\* clean_text(clean_text(text))
NormalizeAgain ==
    /\ pc = "normalize_again"
    /\ recleaned' = clean_text(cleaned_text)
    /\ pc' = "normalized"
    /\ UNCHANGED <<process, mode, text, cleaned_text, audio_bytes, raw_audio,
                   audio_features, transcript, models, fedTokens, predictions,
                   cards, rendered, error, trace>>

NextClean == Normalize \/ NormalizeAgain

CleanSpec == InitClean /\ [][NextClean]_vars

\* s is a subsequence of t: the elements of s occur in t in the same order
RECURSIVE IsSubseq(_, _)
IsSubseq(s, t) ==
    IF s = <<>> THEN TRUE
    ELSE IF t = <<>> THEN FALSE
    ELSE IF Head(s) = Head(t) THEN IsSubseq(Tail(s), Tail(t))
    ELSE IsSubseq(s, Tail(t))

(***************************************************************************)
(* Properties of clean_text, checked under CleanSpec.                      *)
(***************************************************************************)

\* C2: clean_text is idempotent: cleaning a cleaned text gives the cleaned
\* text again.
C2_Idempotent == pc = "normalized" => recleaned = cleaned_text

\* C3: the output of clean_text has letters, digits and whitespace only, and
\* none of its whitespace-separated tokens is a stopword.
C3_NoPunctuationNoStopword ==
    pc # "normalize" =>
        /\ \A i \in DOMAIN cleaned_text :
              IsLetter(cleaned_text[i]) \/ IsDigit(cleaned_text[i])
                  \/ IsSpace(cleaned_text[i])
        /\ \A i \in DOMAIN Split(cleaned_text) :
              Split(cleaned_text)[i] \notin Stopwords

\* C4 as stated: the tokens of the output are a subsequence, in order, of
\* the whitespace-separated tokens of the input.
C4_SubsequenceOfInputTokens ==
    pc # "normalize" => IsSubseq(Split(cleaned_text), Split(text))

\* C4 as amended: the tokens of the output are a subsequence, in order, of
\* the whitespace-separated tokens of the input after the characters that
\* are neither word characters nor whitespace are deleted and the rest is
\* lowercased.
C4_SubsequenceOfNormalizedTokens ==
    pc # "normalize" =>
        IsSubseq(Split(cleaned_text), Split(Lower(StripNonWord(text))))

\* a text with a capital and a stopword has been cleaned: a token is kept,
\* another is dropped
C4_Witness ==
    /\ pc = "normalized"
    /\ \E i \in DOMAIN text : text[i] = "B"
    /\ Len(Split(cleaned_text)) >= 1
    /\ Len(Split(cleaned_text)) < Len(Split(Lower(StripNonWord(text))))

(***************************************************************************)
(* Properties of the script runs, checked under Spec.                      *)
(***************************************************************************)

\* C1: every call of the classifier, on the text path and on the audio
\* path, runs the model on at most 512 tokens, and no run ends with a
\* length error.
C1_TruncatedBeforeModel == fedTokens <= max_length /\ error # "LengthError"

FeelHopelessEmpty == <<"f","e","e","l"," ","h","o","p","e","l","e","s","s"," ",
                       "e","m","p","t","y">>

\* the card of the highest score is the one of sadness and reads
\* "Potential Depression"
TopSadnessIsPotentialDepression ==
    \A i \in DOMAIN cards :
        cards[i].top /\ cards[i].label = "sadness"
            => cards[i].diagnosis = "Potential Depression"

\* C5 as stated: on the text path the scenario sentence is only lowercased
\* by clean_text, and a highest score for sadness is shown as "Potential
\* Depression".
C5_ScenarioOnlyLowercased ==
    mode = "text" /\ text = Scenario /\ cleaned_text # NoText =>
        /\ cleaned_text = Lower(Scenario)
        /\ TopSadnessIsPotentialDepression

\* C5 as amended: on the text path clean_text lowercases the scenario
\* sentence and drops its stopwords "i" and "and", leaving "feel hopeless
\* empty", and a highest score for sadness is shown as "Potential
\* Depression".
C5_ScenarioCleanedAndMapped ==
    mode = "text" /\ text = Scenario /\ cleaned_text # NoText =>
        /\ cleaned_text = FeelHopelessEmpty
        /\ TopSadnessIsPotentialDepression

\* the scenario sentence went through the text path and sadness scored highest
C5_Witness ==
    /\ pc = "done" /\ mode = "text" /\ text = Scenario
    /\ cleaned_text = FeelHopelessEmpty
    /\ \E i \in DOMAIN cards : cards[i].top /\ cards[i].label = "sadness"

MappedLabels == {"sadness", "fear", "anger", "neutral"}

\* C6: in the scripts that map labels, every prediction gets a card with a
\* defined diagnosis and color, and every label outside sadness, fear, anger
\* and neutral gets the one default entry.
C6_MappingTotal ==
    app # "Speech_Text_Sentiment" /\ pc = "done" /\ predictions # <<>> =>
        /\ Len(cards) = Len(predictions)
        /\ \A i \in DOMAIN cards :
            /\ cards[i].label = predictions[i].label
            /\ cards[i].diagnosis \in
                  {"Potential Depression", "Anxiety Indicators", "Stress Markers",
                   "Baseline State", "Depression Risk", "Anxiety Signs",
                   "Stress Level", "Other", "Neutral"}
            /\ cards[i].color \in {"#e74c3c", "#3498db", "#f1c40f", "#2ecc71", "#95a5a6"}
            /\ cards[i].label \notin MappedLabels =>
                  /\ cards[i].diagnosis =
                        (IF app = "Speech_Sentiment" THEN "Neutral" ELSE "Other")
                  /\ cards[i].color = "#95a5a6"

\* cards were rendered for a result with labels this code does not know
C6_Witness ==
    /\ pc = "done"
    /\ \E i \in DOMAIN cards : cards[i].label = "LABEL_0" /\ cards[i].diagnosis = "Other"

\* the pipeline stages in a run's trace, in the order they ran
StageNames == {"normalize", "decode", "extractFeatures", "transcribe",
               "classify", "map", "render"}

Stages == SelectSeq(trace, LAMBDA x : x \in StageNames)

\* the place of a stage in the documented order; feature extraction and
\* transcription share one
StageRank(x) ==
    IF x \in {"normalize", "decode"} THEN 1
    ELSE IF x \in {"extractFeatures", "transcribe"} THEN 2
    ELSE IF x = "classify" THEN 3
    ELSE IF x = "map" THEN 4
    ELSE 5

\* C7: in every run the stages run in the documented order, each at most
\* once.
C7_StagesInOrderOnce ==
    \A i, j \in DOMAIN Stages :
        i < j => Stages[i] # Stages[j] /\ StageRank(Stages[i]) <= StageRank(Stages[j])

\* C8 as stated: each model is initialized only by a run that uses it, at
\* most once, and a cached handle is never replaced.
C8_EachModelLazyOnce ==
    [][ /\ (whisperLoads' > whisperLoads => mode = "audio")
        /\ whisperLoads' <= 1
        /\ emotionLoads' <= 1
        /\ (modelsCache # 0 => modelsCache' = modelsCache) ]_vars

\* C8 as amended: the models are initialized together, by the cached loader
\* and nowhere else, in the first run that reaches a model call; once the
\* loader has returned it never runs again, the cached handle never changes
\* and every later run gets that handle.
C8_LoaderLazyOnce ==
    [][ /\ (whisperLoads' # whisperLoads \/ emotionLoads' # emotionLoads
              => pc \in {"load_models", "load_models_main"} /\ modelsCache = 0)
        /\ (modelsCache # 0 => modelsCache' = modelsCache)
        /\ emotionLoads' <= 1
        /\ (emotionLoads' = 1 <=> modelsCache' # 0)
        /\ (models' # 0 => models' = modelsCache') ]_vars

\* the second run got the handle the first run loaded
C8_Witness ==
    reqNo = 2 /\ modelsCache = 1 /\ models = 1 /\ pc = "done" /\ cards # <<>>

\* C9: a failed model load ends the run with nothing classified or rendered
\* and nothing cached, the run does not load again, and the next run finds
\* the cache empty.
C9_LoadFailureFatalNotCached ==
    [][ /\ (error' = "ModelUnavailableError" =>
              /\ pc' = "failed"
              /\ modelsCache' = 0 /\ models' = 0
              /\ fedTokens' = -1 /\ predictions' = <<>>
              /\ cards' = <<>> /\ rendered' = {})
        /\ (error = "ModelUnavailableError" /\ reqNo' = reqNo => UNCHANGED vars)
        /\ (error = "ModelUnavailableError" /\ reqNo' # reqNo => modelsCache' = 0) ]_vars

\* a load failed in the first run and the second run loaded again
C9_Witness ==
    reqNo = 2 /\ whisperLoads = 2 /\ emotionLoads = 1 /\ modelsCache = 2

\* C10 as stated: no collaborator error is caught and recovered from, and a
\* run that ended with an error rendered no result.
C10_NoLocalRecovery ==
    /\ \A i \in DOMAIN trace : trace[i] # "except LookupError"
    /\ error # "none" => pc = "failed" /\ rendered = {} /\ cards = <<>>

\* C10 as amended: the LookupError of the stopword lookup in initialize_nltk
\* is caught there and answered with a download; every other collaborator
\* error (decode, model load, transcription, classification, the stopword
\* lookup inside clean_text) ends the run as it was raised, with no result
\* rendered.
C10_OnlyNltkLookupRecovered ==
    /\ \A i \in DOMAIN trace :
          trace[i] = "except LookupError" =>
              /\ i > 1 /\ trace[i - 1] = "nltk.data.find"
              /\ i < Len(trace) /\ trace[i + 1] = "nltk.download"
    /\ error # "none" => pc = "failed" /\ rendered = {} /\ cards = <<>>
    /\ pc = "failed" => error # "none"
    /\ error = "DecodeError" <=>
          \E i \in DOMAIN trace : trace[i] = "decode" /\ DecodeFails(audio_bytes)
    /\ error = "LookupError" <=>
          /\ \E i \in DOMAIN trace : trace[i] = "normalize"
          /\ Words(text) # <<>> /\ ~stopwordsInstalled
    /\ error \in {"none", "DecodeError", "LookupError", "ModelUnavailableError",
                  "TranscriptionError", "ClassificationError", "LengthError"}

\* the failed lookup of initialize_nltk was answered with a download that
\* did not install the stopwords, and clean_text's lookup ended the run
C10_Witness ==
    /\ error = "LookupError" /\ pc = "failed"
    /\ \E i \in DOMAIN trace : trace[i] = "nltk.download"

\* a stage is in the trace of the current run
Ran(stage) == \E i \in DOMAIN trace : trace[i] = stage

\* C11 as stated: nothing but the model handles is carried from one run to
\* the next: the st.cache_data caches hold nothing between runs, and the
\* cleaned text and the features a run has were computed by that run.
C11_NothingButHandlesCarried ==
    /\ pc \in {"idle", "done", "failed"} => cleanCache = {} /\ audioCache = {}
    /\ cleaned_text # NoText => Ran("normalize")
    /\ audio_features # NoFeatures => Ran("extractFeatures")

\* C11 as amended: a run starts with no cleaned text, waveform, features or
\* transcript of its own; besides the model handles the st.cache_data
\* entries of clean_text and process_audio are carried into the next run,
\* each holding what the function returned for its key, and a repeated
\* input is served from its entry, so that a run's cleaned text and features
\* are always those of its own input.
C11_CachesCarriedAndServed ==
    /\ pc \in {"initialize_nltk", "input"} =>
          /\ cleaned_text = NoText /\ raw_audio = NoWaveform
          /\ audio_features = NoFeatures /\ transcript = NoText
    /\ \A e \in cleanCache : e[2] = clean_text(e[1])
    /\ \A e \in audioCache :
          /\ e.features = Features(Decode(e.key))
          /\ e.text # NoText => e.text = WhisperText(Decode(e.key))
    /\ cleaned_text # NoText =>
          /\ cleaned_text = clean_text(text)
          /\ CleanCached(text)
          /\ ~Ran("normalize") => reqNo > 1
    /\ audio_features # NoFeatures =>
          /\ audio_features = Features(Decode(audio_bytes))
          /\ ~Ran("extractFeatures") => reqNo > 1 /\ AudioCached(audio_bytes)
    /\ transcript # NoText => transcript = WhisperText(Decode(audio_bytes))

\* a text given a second time was classified and rendered without
\* clean_text running: its cleaned text came from the cache
C11_Witness ==
    /\ pc = "done" /\ mode = "text" /\ reqNo > 1
    /\ cleaned_text = clean_text(text) /\ ~Ran("normalize")
    /\ cards # <<>>

\* the raw input of the current run is empty: "" resp. no audio bytes
EmptyInput ==
    IF mode = "text" THEN text = <<>> ELSE audio_bytes = NoAudio

\* the current run has ended
RunEnded == reqNo > 0 /\ pc \in {"done", "failed"}

\* no stage has run and no result is rendered in the current run
NothingRan ==
    /\ Stages = <<>> /\ fedTokens = -1 /\ predictions = <<>>
    /\ cards = <<>> /\ rendered = {}
    /\ cleaned_text = NoText /\ transcript = NoText

\* C12 as stated: with an empty raw input no stage runs and nothing is
\* rendered, and every run with a non-empty raw input invokes the
\* classifier.
C12_ClassifiedIffInputNonEmpty ==
    /\ EmptyInput => NothingRan
    /\ RunEnded /\ ~EmptyInput => Ran("classify")

\* C12 as amended: with an empty raw input no stage runs and nothing is
\* rendered; with a non-empty raw input the classifier is invoked unless a
\* collaborator error ends the run before, and an empty cleaned text or
\* transcript does not keep the classifier from being invoked; a run that
\* ends without an error has rendered its results.
C12_GateIsRawInputOnly ==
    /\ EmptyInput => NothingRan /\ pc # "failed"
    /\ Ran("classify") => ~EmptyInput
    /\ RunEnded /\ ~EmptyInput =>
          \/ Ran("classify")
          \/ /\ pc = "failed"
             /\ error \in {"DecodeError", "LookupError", "ModelUnavailableError",
                           "TranscriptionError"}
    /\ pc \in {"classify", "render"} =>
          IF mode = "text" THEN cleaned_text # NoText ELSE transcript # NoText
    /\ pc = "done" /\ ~EmptyInput => Ran("classify") /\ rendered # {} /\ cards # <<>>

\* a text of stopwords only was cleaned to the empty string, classified and
\* rendered
C12_Witness ==
    /\ pc = "done" /\ mode = "text" /\ text # <<>> /\ cleaned_text = <<>>
    /\ Ran("classify") /\ fedTokens >= 0 /\ cards # <<>>

\* a run with no input ended with nothing run
C12_WitnessEmpty == RunEnded /\ EmptyInput /\ NothingRan

====
